---- MODULE Spec2Model ----
(***************************************************************************)
(* A model of maproulette/helpers.py: the random task selector and its     *)
(* user-area filter, the GeoPoint and JsonTasks validators, the admin task *)
(* parser and the statistics reshaper with its date padding.               *)
(***************************************************************************)
EXTENDS Integers, Sequences, FiniteSets, TLC

VARIABLES
    tasks,      \* the task store: task id -> row of the tasks table
    session,    \* the flask session of the request: key -> value
    pc,         \* where the running get_random_task call stands
    q,          \* the query object the running get_random_task call holds
    input,      \* the argument of a call of a pure helper
    ret         \* what the last finished call returned or raised

vars == <<tasks, session, pc, q, input, ret>>

----------------------------------------------------------------------------
(* Bounds of the model.                                                    *)

NTasks == 2          \* rows in the task store
MaxBatch == 4        \* elements in a bulk payload
MaxTuples == 2       \* rows of a statistics query result
MaxTick == 4         \* datetimes are 0 .. MaxTick, in ticks
TicksPerDay == 2     \* ticks in one calendar day

----------------------------------------------------------------------------
(* Python values.                                                          *)

\* None, where the other values are task ids (1 .. NTasks) or datetimes >= 0.
None == 0 - 1

NoRet == [op |-> "none"]
NoQuery == [slug |-> "none"]
NoInput == [op |-> "none"]

Ok(v) == [exc |-> "None", val |-> v]
Raise(e, m) == [exc |-> e, msg |-> m]

\* bool(s) of a str
StrTruthy(s) == s # ""

Min(S) == CHOOSE x \in S : \A y \in S : x <= y
Max(S) == CHOOSE x \in S : \A y \in S : x >= y

----------------------------------------------------------------------------
(* The task store and the session.                                         *)

TaskIds == 1 .. NTasks
Challenges == {"a", "b"}
Statuses == {"created", "available", "skipped", "assigned"}
\* Task.random, a float of [0, 1), in hundredths
Keys == {10, 40, 90}
\* random(), in hundredths
Draws == {0, 25, 40, 95}
Locations == {<<0, 0>>, <<5, 0>>}

SessionKeys == {"lon", "lat", "radius"}
FullSession == [k \in SessionKeys |-> IF k = "radius" THEN 1 ELSE 0]
Sessions == {[k \in D |-> FullSession[k]] : D \in SUBSET SessionKeys}

TaskRows ==
    [challenge_slug : Challenges, status : Statuses, random : Keys,
     location : Locations]

Abs(x) == IF x < 0 THEN 0 - x ELSE x

\* ST_DWithin(location, Point(lon, lat), radius) on a grid
ST_DWithin(loc, lon, lat, radius) ==
    Abs(loc[1] - lon) + Abs(loc[2] - lat) <= radius

----------------------------------------------------------------------------
(* user_area_is_defined and refine_with_user_area.                         *)

\* the test of line 183: 'lon' and 'lat' and 'radius' in session
AreaTest(s) ==
    IF StrTruthy("lon")
    THEN IF StrTruthy("lat") THEN "radius" \in DOMAIN s ELSE FALSE
    ELSE FALSE

\* return 'lon' and 'lat' and 'radius' in session
user_area_is_defined(s) ==
    IF StrTruthy("lon")
    THEN IF StrTruthy("lat") THEN "radius" \in DOMAIN s ELSE FALSE
    ELSE FALSE

\* session[k]
SessionGet(s, k) == IF k \in DOMAIN s THEN Ok(s[k]) ELSE Raise("KeyError", k)

refine_with_user_area(query, s) ==
    IF AreaTest(s)
    THEN LET lon == SessionGet(s, "lon")
             lat == SessionGet(s, "lat")
             radius == SessionGet(s, "radius")
         IN  IF lon.exc # "None" THEN lon
             ELSE IF lat.exc # "None" THEN lat
             ELSE IF radius.exc # "None" THEN radius
             ELSE Ok([query EXCEPT !.within =
                        Append(@, <<lon.val, lat.val, radius.val>>)])
    ELSE Ok(query)

----------------------------------------------------------------------------
(* get_random_task.                                                        *)

EligibleStatuses == {"available", "skipped", "created"}

\* Task.query.filter(slug, status in [...], random >= rn or random < rn)
TaskQuery(slug, cmp, rn) ==
    [slug |-> slug, cmp |-> cmp, rn |-> rn, within |-> <<>>]

\* the rows a query selects from store T
Rows(query, T) ==
    {t \in DOMAIN T :
        /\ T[t].challenge_slug = query.slug
        /\ T[t].status \in EligibleStatuses
        /\ IF query.cmp = "ge" THEN T[t].random >= query.rn
                               ELSE T[t].random < query.rn
        /\ \A i \in 1 .. Len(query.within) :
              ST_DWithin(T[t].location, query.within[i][1],
                         query.within[i][2], query.within[i][3])}

\* query.order_by(Task.random).first(): the rows it may return (None for
\* no row; which of several rows with the least key is up to the database)
First(query, T) ==
    LET rows == Rows(query, T)
    IN  IF rows = {} THEN {None}
        ELSE {t \in rows : \A u \in rows : T[t].random <= T[u].random}

GetRet(slug, rn, res) ==
    [op |-> "get_random_task", challenge |-> slug, rn |-> rn, res |-> res]

\* lines 113-133: the draw, the first pass and its emptiness test
FirstPass(slug, rn) ==
    /\ pc = "idle"
    /\ LET r1 == refine_with_user_area(TaskQuery(slug, "ge", rn), session)
       IN  IF r1.exc # "None"
           THEN /\ pc' = "idle"
                /\ q' = NoQuery
                /\ ret' = GetRet(slug, rn, r1)
           ELSE /\ pc' = "fetch"
                /\ ret' = NoRet
                /\ \E f \in First(r1.val, tasks) :
                      q' = IF f = None THEN TaskQuery(slug, "lt", rn)
                                       ELSE r1.val
    /\ UNCHANGED <<tasks, session, input>>

\* lines 134-135: the filter again and the fetch
FinalFetch ==
    /\ pc = "fetch"
    /\ LET r2 == refine_with_user_area(q, session)
       IN  IF r2.exc # "None"
           THEN ret' = GetRet(q.slug, q.rn, r2)
           ELSE \E f \in First(r2.val, tasks) :
                   ret' = GetRet(q.slug, q.rn, Ok(f))
    /\ pc' = "idle"
    /\ q' = NoQuery
    /\ UNCHANGED <<tasks, session, input>>

\* a call of user_area_is_defined()
UserAreaIsDefined ==
    /\ pc = "idle"
    /\ ret' = [op |-> "user_area_is_defined",
               res |-> Ok(user_area_is_defined(session))]
    /\ UNCHANGED <<tasks, session, pc, q, input>>

\* a call of refine_with_user_area(query) on its own
RefineWithUserArea(slug, rn) ==
    /\ pc = "idle"
    /\ ret' = [op |-> "refine_with_user_area",
               query |-> TaskQuery(slug, "ge", rn),
               res |-> refine_with_user_area(TaskQuery(slug, "ge", rn),
                                             session)]
    /\ UNCHANGED <<tasks, session, pc, q, input>>

\* another request moves a task to another status
SetStatus(t, s) ==
    /\ tasks[t].status # s
    /\ tasks' = [tasks EXCEPT ![t].status = s]
    /\ UNCHANGED <<session, pc, q, input, ret>>

InitSelect ==
    /\ tasks \in [TaskIds -> TaskRows]
    /\ session \in Sessions
    /\ pc = "idle"
    /\ q = NoQuery
    /\ input = NoInput
    /\ ret = NoRet

NextSelect ==
    \/ \E c \in Challenges, r \in Draws : FirstPass(c, r)
    \/ FinalFetch
    \/ UserAreaIsDefined
    \/ \E c \in Challenges, r \in Draws : RefineWithUserArea(c, r)

\* one request at a time: the store does not change while a selection runs
Spec == InitSelect /\ [][NextSelect]_vars

NextConc ==
    \/ \E c \in Challenges, r \in Draws : FirstPass(c, r)
    \/ FinalFetch
    \/ \E t \in TaskIds, s \in Statuses : SetStatus(t, s)

\* concurrent requests: statuses change at any moment, also between the two
\* reads of a running selection
SpecConc == InitSelect /\ [][NextConc]_vars

----------------------------------------------------------------------------
(* The selector's claims.                                                  *)

\* a user area is defined: lon, lat and radius are all in the session
AreaDefined(s) == SessionKeys \subseteq DOMAIN s

\* the eligible pool of a challenge under the session's user area
Pool(slug, T, s) ==
    {t \in DOMAIN T :
        /\ T[t].challenge_slug = slug
        /\ T[t].status \in {"available", "skipped", "created"}
        /\ AreaDefined(s) =>
              ST_DWithin(T[t].location, s["lon"], s["lat"], s["radius"])}

LeastKey(S, T) == Min({T[t].random : t \in S})

\* what C1 asks of a finished get_random_task call
SelectsLeast(r, T, s) ==
    LET pool == Pool(r.challenge, T, s)
        above == {t \in pool : T[t].random >= r.rn}
    IN  pool # {} =>
           /\ r.res.exc = "None"
           /\ r.res.val \in (IF above # {} THEN above ELSE pool)
           /\ T[r.res.val].random =
                 LeastKey(IF above # {} THEN above ELSE pool, T)

\* C1: get_random_task returns the eligible task (of the challenge, inside
\* the user area when one is defined) with the least random key >= r, and
\* when there is none but the pool is not empty, the eligible task with the
\* least key overall.
C1_SelectsLeastOrWraps ==
    ret.op = "get_random_task" => SelectsLeast(ret, tasks, session)

\* C1 in the sessions where the filter does not raise: radius absent, or
\* all three keys present
C1_HoldsWhenFilterIsTotal ==
    (ret.op = "get_random_task"
        /\ ("radius" \in DOMAIN session => AreaDefined(session)))
    => SelectsLeast(ret, tasks, session)

\* C2: when at least one of lon, lat, radius is missing from the session,
\* refine_with_user_area returns the query unmodified and raises nothing,
\* and user_area_is_defined reports no constraint.
C2_PartialAreaIsNoArea ==
    ~AreaDefined(session) =>
        /\ ret.op = "refine_with_user_area" => ret.res = Ok(ret.query)
        /\ ret.op = "user_area_is_defined" => ret.res = Ok(FALSE)

\* C9: when the eligible pool is empty, or the user area filters every
\* eligible task out, get_random_task returns None, raises nothing and
\* leaves every task's status and random key as they were.
C9_EmptyPoolGivesNone ==
    [][(ret'.op = "get_random_task" /\ ret' # ret
          /\ Pool(ret'.challenge, tasks, session) = {})
       => (ret'.res = Ok(None) /\ tasks' = tasks)]_vars

\* C9 in the sessions where the filter does not raise
C9_HoldsWhenFilterIsTotal ==
    (ret.op = "get_random_task"
        /\ ("radius" \in DOMAIN session => AreaDefined(session))
        /\ Pool(ret.challenge, tasks, session) = {})
    => ret.res = Ok(None)

\* C10: get_random_task does not return None while an eligible task with
\* random < r exists, whatever other requests do to the statuses between
\* its two reads.
C10_NoneOnlyWhenPoolEmpty ==
    [][(pc = "fetch" /\ pc' = "idle" /\ ret'.res = Ok(None))
       => ~\E t \in Pool(q.slug, tasks, session) : tasks[t].random < q.rn]_vars

\* C10 holds when no status changes while a selection runs (under Spec)
C10_HoldsWithoutInterleaving ==
    [][(pc = "fetch" /\ pc' = "idle" /\ ret'.res = Ok(None))
       => Pool(q.slug, tasks, session) = {}]_vars

----------------------------------------------------------------------------
(* GeoPoint.                                                               *)

\* the characters of a request value: a numeral, the separator, or other
Num(n) == [k |-> "num", v |-> n]
Bar == [k |-> "bar", v |-> 0]
Junk == [k |-> "junk", v |-> 0]
Coords == {0 - 181, 0 - 180, 0 - 91, 0 - 90, 0, 90, 91, 180, 181}
Chars == {Num(n) : n \in Coords} \cup {Bar, Junk}

RECURSIVE SplitFrom(_, _, _)
\* value.split('|'): the segments between the separators
SplitFrom(value, i, seg) ==
    IF i > Len(value) THEN <<seg>>
    ELSE IF value[i] = Bar THEN <<seg>> \o SplitFrom(value, i + 1, <<>>)
    ELSE SplitFrom(value, i + 1, Append(seg, value[i]))

Split(value) == SplitFrom(value, 1, <<>>)

\* float(s): a segment that is one numeral, or ValueError
Float(seg) ==
    IF Len(seg) = 1 /\ seg[1].k = "num" THEN Ok(seg[1].v)
    ELSE Raise("ValueError", "could not convert string to float")

GeoPointInit(value) ==
    LET parts == Split(value)
    IN  IF Len(parts) # 2 THEN Raise("ValueError", "unpack")
        ELSE LET lat == Float(parts[2])
                 lon == Float(parts[1])
             IN  IF lat.exc # "None" THEN lat
                 ELSE IF lon.exc # "None" THEN lon
                 ELSE IF (~(lat.val >= 0 - 90)) /\ lat.val <= 90
                      THEN Raise("ValueError",
                                 "latitude must be between -90 and 90")
                 ELSE IF (~(lon.val >= 0 - 180)) /\ lon.val <= 180
                      THEN Raise("ValueError",
                                 "longitude must be between -180 and 180")
                 ELSE Ok([lat |-> lat.val, lon |-> lon.val])

GeoInputs ==
    {[op |-> "GeoPoint", value |-> v] :
        v \in UNION {[1 .. n -> Chars] : n \in 1 .. 3}}

GeoPoint ==
    /\ input.op = "GeoPoint"
    /\ ret = NoRet
    /\ ret' = [op |-> "GeoPoint", res |-> GeoPointInit(input.value)]
    /\ UNCHANGED <<tasks, session, pc, q, input>>

\* no store, no session, no call yet
InitPure ==
    /\ tasks = <<>>
    /\ session = <<>>
    /\ pc = "idle"
    /\ q = NoQuery
    /\ ret = NoRet

InitGeo == InitPure /\ input \in GeoInputs

SpecGeo == InitGeo /\ [][GeoPoint]_vars

\* C3: GeoPoint raises for every input whose latitude is outside
\* [-90, 90] or whose longitude is outside [-180, 180], on either side of
\* each range, and accepts every input with both inside, bounds included.
C3_RangesChecked ==
    \A lon, lat \in Coords :
        (ret.op = "GeoPoint" /\ input.value = <<Num(lon), Bar, Num(lat)>>)
        => IF lat < 0 - 90 \/ lat > 90 \/ lon < 0 - 180 \/ lon > 180
           THEN ret.res.exc = "ValueError"
           ELSE ret.res = Ok([lat |-> lat, lon |-> lon])

\* what the code does check: the low side of each range only
C3_LowSidesChecked ==
    \A lon, lat \in Coords :
        (ret.op = "GeoPoint" /\ input.value = <<Num(lon), Bar, Num(lat)>>)
        => IF lat < 0 - 90 \/ lon < 0 - 180
           THEN ret.res.exc = "ValueError"
           ELSE ret.res = Ok([lat |-> lat, lon |-> lon])

----------------------------------------------------------------------------
(* as_stats_dict, pad_dates and parse_time.                                *)

\* a datetime, in ticks since the first instant of the model
DT(n) == [type |-> "datetime", v |-> n]
\* a key that is no datetime
Str(n) == [type |-> "str", v |-> n]
\* None, for a start or an end
NoDate == [type |-> "NoneType", v |-> 0]

\* isinstance(x, datetime)
IsDatetime(x) == x.type = "datetime"

\* min and max of datetimes
MinDT(S) == DT(Min({x.v : x \in S}))
MaxDT(S) == DT(Max({x.v : x \in S}))

\* timedelta.days of (b - a): whole days, rounded down
DeltaDays(a, b) == (b.v - a.v) \div TicksPerDay

\* date + timedelta(n)
PlusDays(date, n) == DT(date.v + n * TicksPerDay)

\* datetime.isoformat(): the calendar day and the time of day
IsoFormat(date) ==
    [type |-> "str", day |-> date.v \div TicksPerDay,
     time |-> date.v % TicksPerDay]

parse_time(key, unix_time) ==
    IF IsDatetime(key)
    THEN IF unix_time
         THEN [type |-> "float", v |-> key.v * (86400 \div TicksPerDay)]
         ELSE IsoFormat(key)
    ELSE key

RECURSIVE PadLoop(_, _, _, _, _)
\* the loop of pad_dates, from its n-th day on
PadLoop(start, days, data, n, result) ==
    IF n >= days THEN result
    ELSE LET date == PlusDays(start, n)
             k == parse_time(date, FALSE)
             v == IF date \notin DOMAIN data THEN 0 ELSE data[date]
         IN  PadLoop(start, days, data, n + 1, (k :> v) @@ result)

\* a plausible slip: the end day counted in
pad_dates_end_included(start, end, data) ==
    PadLoop(start, DeltaDays(start, end) + 1, data, 0, <<>>)

pad_dates(start, end, data) ==
    LET days == IF DeltaDays(start, end) > 0 THEN DeltaDays(start, end) ELSE 1
    IN  PadLoop(start, days, data, 0, <<>>)

\* the group keys, in sorted() order
GroupNames == <<"fixed", "skipped">>
Orders == {<<0, 1, 2>>, <<1, 0, 2>>}

\* t[order[i]]
Col(t, order, i) == t[order[i + 1] + 1]

SeqRange(f) == {f[i] : i \in DOMAIN f}

\* sorted(set([t[order[0]] for t in tuples]))
SortedGroups(tuples, order) ==
    SelectSeq(GroupNames,
              LAMBDA g : g \in {Col(t, order, 0) : t \in SeqRange(tuples)})

RECURSIVE GroupData(_, _, _, _, _)
\* lines 213-216: the rows of one group, a later row replacing an earlier
GroupData(tuples, order, group, i, data) ==
    IF i > Len(tuples) THEN data
    ELSE LET t == tuples[i]
         IN  GroupData(tuples, order, group, i + 1,
                 IF Col(t, order, 0) = group
                 THEN (Col(t, order, 1) :> Col(t, order, 2)) @@ data
                 ELSE data)

\* lines 220-227: start and end widened by the span seen in the dates
Widen(dates, start, end) ==
    LET start_in_data == MinDT(dates)
        end_in_data == MaxDT(dates)
    IN  [start |-> IF start # NoDate THEN MinDT({start_in_data, start})
                                     ELSE start_in_data,
         end |-> IF end # NoDate THEN MaxDT({end_in_data, end})
                                 ELSE end_in_data]

\* a plausible slip: the span taken from the group's own rows
GroupStepOwnSpan(tuples, order, group, start, end) ==
    LET data == GroupData(tuples, order, group, 1, <<>>)
        span == Widen(DOMAIN data, start, end)
    IN  [start |-> span.start, end |-> span.end,
         series |-> [key |-> group,
                     values |-> pad_dates(span.start, span.end, data)]]

\* lines 213-231: one turn of the loop over the groups
GroupStep(tuples, order, group, start, end) ==
    LET data == GroupData(tuples, order, group, 1, <<>>)
        t == tuples[Len(tuples)]
    IN  IF IsDatetime(Col(t, order, 1))
        THEN LET span == Widen({Col(u, order, 1) : u \in SeqRange(tuples)},
                               start, end)
             IN  [start |-> span.start, end |-> span.end,
                  series |-> [key |-> group,
                              values |-> pad_dates(span.start, span.end,
                                                   data)]]
        ELSE [start |-> start, end |-> end,
              series |-> [key |-> group, values |-> data]]

RECURSIVE GroupLoop(_, _, _, _, _, _, _)
GroupLoop(tuples, order, groups, i, start, end, result) ==
    IF i > Len(groups) THEN result
    ELSE LET step == GroupStep(tuples, order, groups[i], start, end)
         IN  GroupLoop(tuples, order, groups, i + 1, step.start, step.end,
                       Append(result, step.series))

as_stats_dict(tuples, order, start, end) ==
    IF Len(tuples) = 0 THEN <<>>
    ELSE GroupLoop(tuples, order, SortedGroups(tuples, order), 1, start, end,
                   <<>>)

Ticks == {DT(n) : n \in 0 .. MaxTick}
Counts == {2, 5}
CallerDates == {NoDate, DT(0), DT(1), DT(MaxTick)}

\* a row (group, key, count) laid out as order says
Row(order, g, k, c) ==
    [i \in 1 .. 3 |-> IF i = order[1] + 1 THEN g
                      ELSE IF i = order[2] + 1 THEN k ELSE c]

RowsOf(order, keys) ==
    {Row(order, g, k, c) : g \in SeqRange(GroupNames), k \in keys, c \in Counts}

\* the calls of as_stats_dict the model makes: rows with datetimes under
\* either order and any start and end, and rows with keys that are none
StatsInput(x) ==
    \/ \E o \in Orders, s \in CallerDates, e \in CallerDates :
          \E n \in 0 .. MaxTuples : \E ts \in [1 .. n -> RowsOf(o, Ticks)] :
             x = [op |-> "as_stats_dict", tuples |-> ts, order |-> o,
                  start |-> s, end |-> e]
    \/ \E n \in 1 .. MaxTuples :
          \E ts \in [1 .. n -> RowsOf(<<0, 1, 2>>, {Str(1), Str(2)})] :
             x = [op |-> "as_stats_dict", tuples |-> ts,
                  order |-> <<0, 1, 2>>, start |-> NoDate, end |-> NoDate]

\* the calls of pad_dates the model makes
PadInput(x) ==
    \E s \in Ticks, e \in Ticks : \E D \in SUBSET Ticks : \E d \in [D -> Counts] :
       x = [op |-> "pad_dates", start |-> s, end |-> e, data |-> d]

AsStatsDict ==
    /\ input.op = "as_stats_dict"
    /\ ret = NoRet
    /\ ret' = [op |-> "as_stats_dict",
               res |-> as_stats_dict(input.tuples, input.order, input.start,
                                     input.end)]
    /\ UNCHANGED <<tasks, session, pc, q, input>>

PadDates ==
    /\ input.op = "pad_dates"
    /\ ret = NoRet
    /\ ret' = [op |-> "pad_dates",
               res |-> pad_dates(input.start, input.end, input.data)]
    /\ UNCHANGED <<tasks, session, pc, q, input>>

NextStats == AsStatsDict \/ PadDates

InitStats == InitPure /\ (StatsInput(input) \/ PadInput(input))

SpecStats == InitStats /\ [][NextStats]_vars

----------------------------------------------------------------------------
(* The claims on the statistics.                                           *)

\* the keys of the days start + n for n in 0 .. count - 1
DayKeys(start, count) == {IsoFormat(PlusDays(start, n)) : n \in 0 .. count - 1}

\* the call of as_stats_dict had rows, with datetimes in the date column
PaddedCall ==
    /\ ret.op = "as_stats_dict"
    /\ Len(input.tuples) > 0
    /\ \A t \in SeqRange(input.tuples) : IsDatetime(Col(t, input.order, 1))

DatesOfCall == {Col(t, input.order, 1) : t \in SeqRange(input.tuples)}

\* the rows of the call that are of group g and date d
RowsAt(g, d) ==
    {i \in DOMAIN input.tuples :
        /\ Col(input.tuples[i], input.order, 0) = g
        /\ Col(input.tuples[i], input.order, 1) = d}

\* the count the call's rows give group g at date d: that of the last row
Observed(g, d) == Col(input.tuples[Max(RowsAt(g, d))], input.order, 2)

\* C4: with no start and no end given, each series has a key for every
\* calendar day from the earliest through the latest observed date, every
\* observed (date, count) of the group appears with its count, every other
\* day of the span is 0 and there is no key outside the span.
C4_PaddedThroughLatestDay ==
    (PaddedCall /\ input.start = NoDate /\ input.end = NoDate
        /\ \A d \in DatesOfCall : d.v % TicksPerDay = 0)
    => \A i \in DOMAIN ret.res :
          LET lo == MinDT(DatesOfCall)
              hi == MaxDT(DatesOfCall)
              values == ret.res[i].values
          IN  /\ DOMAIN values = DayKeys(lo, DeltaDays(lo, hi) + 1)
              /\ \A n \in 0 .. DeltaDays(lo, hi) :
                    LET d == PlusDays(lo, n)
                    IN  values[IsoFormat(d)] =
                           IF RowsAt(ret.res[i].key, d) # {}
                           THEN Observed(ret.res[i].key, d) ELSE 0

\* what the code gives instead: the days from the earliest up to, and not
\* including, the latest (the earliest alone when both are the same day)
C4_LatestDayLeftOut ==
    (PaddedCall /\ input.start = NoDate /\ input.end = NoDate
        /\ \A d \in DatesOfCall : d.v % TicksPerDay = 0)
    => \A i \in DOMAIN ret.res :
          LET lo == MinDT(DatesOfCall)
              hi == MaxDT(DatesOfCall)
              count == Max({1, DeltaDays(lo, hi)})
              values == ret.res[i].values
          IN  /\ DOMAIN values = DayKeys(lo, count)
              /\ \A n \in 0 .. count - 1 :
                    LET d == PlusDays(lo, n)
                    IN  values[IsoFormat(d)] =
                           IF RowsAt(ret.res[i].key, d) # {}
                           THEN Observed(ret.res[i].key, d) ELSE 0

\* C5: pad_dates returns a mapping whose keys are exactly the days
\* start + n for n in 0 .. max(1, days(end - start)) - 1, a day of the input
\* mapped to its input count and every other day to 0.
C5_PadDatesIsDense ==
    ret.op = "pad_dates" =>
        LET count == Max({1, DeltaDays(input.start, input.end)})
        IN  /\ DOMAIN ret.res = DayKeys(input.start, count)
            /\ \A n \in 0 .. count - 1 :
                  LET d == PlusDays(input.start, n)
                  IN  ret.res[IsoFormat(d)] =
                         IF d \in DOMAIN input.data THEN input.data[d] ELSE 0

\* pad_dates ran over two days or more, one in the input and one not
C5_Witness ==
    /\ ret.op = "pad_dates"
    /\ DeltaDays(input.start, input.end) >= 2
    /\ \E k \in DOMAIN ret.res : ret.res[k] = 0
    /\ \E k \in DOMAIN ret.res : ret.res[k] # 0

\* pad_dates ran with end before start, and kept the count of start
C5_ClampReached ==
    /\ ret.op = "pad_dates"
    /\ input.end.v < input.start.v
    /\ input.start \in DOMAIN input.data
    /\ Cardinality(DOMAIN ret.res) = 1

\* C6: the span is that of the rows of all the groups, widened by a start
\* or an end the caller gave, so every series of the result has the same
\* date keys.
C6_OneSpanForAllGroups ==
    PaddedCall =>
        LET lo == MinDT(DatesOfCall \cup ({input.start} \ {NoDate}))
            hi == MaxDT(DatesOfCall \cup ({input.end} \ {NoDate}))
        IN  /\ \A i \in DOMAIN ret.res :
                  DOMAIN ret.res[i].values =
                     DayKeys(lo, Max({1, DeltaDays(lo, hi)}))
            /\ \A i, j \in DOMAIN ret.res :
                  DOMAIN ret.res[i].values = DOMAIN ret.res[j].values

\* two groups with no date in common were padded over two days or more
C6_Witness ==
    /\ PaddedCall
    /\ Len(ret.res) = 2
    /\ \A d \in DatesOfCall :
          RowsAt(GroupNames[1], d) = {} \/ RowsAt(GroupNames[2], d) = {}
    /\ Cardinality(DOMAIN ret.res[1].values) >= 2

----------------------------------------------------------------------------
(* task_exists and parse_task_json.                                        *)

\* abort(code, description)
Abort(code, description) ==
    [exc |-> "HTTPException", code |-> code, msg |-> description]

\* the identifier of a task of the store is its id
task_exists(T, challenge_slug, task_identifier) ==
    \E t \in DOMAIN T :
        T[t].challenge_slug = challenge_slug /\ t = task_identifier

\* a call task_exists(*args): its two parameters are both required
CallTaskExists(T, args) ==
    IF Len(args) # 2
    THEN Raise("TypeError", "task_exists() takes exactly 2 arguments")
    ELSE Ok(task_exists(T, args[1], args[2]))

\* dict.get(k): None when k is missing
DictGet(d, k) == IF k \in DOMAIN d THEN d[k] ELSE None

\* asShape(geometry)
asShape(geometry) == [shape |-> geometry]

\* TaskGeometry(osmid, shape)
TaskGeometry(osmid, shape) == [osmid |-> osmid, geometry |-> shape]

RECURSIVE ParseFeatures(_, _, _)
\* lines 154-158: the loop over the features
ParseFeatures(features, i, task_geometries) ==
    IF i > Len(features) THEN task_geometries
    ELSE LET feature == features[i]
             osmid == DictGet(feature.properties, "osmid")
             shape == asShape(feature.geometry)
         IN  ParseFeatures(features, i + 1,
                           Append(task_geometries, TaskGeometry(osmid, shape)))

\* lines 150-167: from data.pop('geometries') on
ParseGeometries(slug, data) ==
    IF "geometries" \notin DOMAIN data THEN Raise("KeyError", "geometries")
    ELSE LET task_geometries ==
                 ParseFeatures(data["geometries"].features, 1, <<>>)
             t == [challenge_slug |-> slug,
                   identifier |-> data["identifier"],
                   geometries |-> task_geometries]
         IN  IF "instruction" \in DOMAIN data
             THEN Ok([k \in DOMAIN t \cup {"instruction"} |->
                        IF k = "instruction" THEN data["instruction"]
                        ELSE t[k]])
             ELSE Ok(t)

parse_task_json(T, slug, data) ==
    IF ~("identifier" \in DOMAIN data) THEN Abort(400, "no identifier")
    ELSE IF ~("geometries" \in DOMAIN data)
    THEN LET exists == CallTaskExists(T, <<data["identifier"]>>)
         IN  IF exists.exc # "None" THEN exists
             ELSE IF ~exists.val
                  THEN Abort(400, "no geometries for new tasks")
                  ELSE ParseGeometries(slug, data)
    ELSE ParseGeometries(slug, data)

\* the features of a payload: a geometry each, with or without an osmid
Features ==
    {[properties |-> p, geometry |-> "Point"] :
        p \in {<<>>, [osmid |-> 7]}}

Geometries ==
    {[features |-> f] : f \in UNION {[1 .. n -> Features] : n \in 0 .. 2}}

\* a payload with the fields D: identifier i, geometries g, an instruction
Payload(D, i, g) ==
    [k \in D |-> IF k = "identifier" THEN i
                 ELSE IF k = "geometries" THEN g ELSE "fix me"]

\* the calls of parse_task_json the model makes
ParseInput(x) ==
    \E slug \in Challenges, i \in 1 .. NTasks + 1, g \in Geometries :
       \E D \in SUBSET {"identifier", "geometries", "instruction"} :
          x = [op |-> "parse_task_json", slug |-> slug,
               data |-> Payload(D, i, g)]

ParseTaskJson ==
    /\ input.op = "parse_task_json"
    /\ ret = NoRet
    /\ ret' = [op |-> "parse_task_json",
               res |-> parse_task_json(tasks, input.slug, input.data)]
    /\ UNCHANGED <<tasks, session, pc, q, input>>

----------------------------------------------------------------------------
(* JsonTasks.                                                              *)

\* json.loads(value): the document of a well-formed text
json_loads(value) ==
    IF value.wellformed THEN Ok(value.doc)
    ELSE Raise("ValueError", "No JSON object could be decoded")

\* the first assert of lines 295-299 that element task fails, "" for none
FailedAssert(task) ==
    IF ~("id" \in DOMAIN task) THEN "Task must contain an 'id' property"
    ELSE IF ~("manifest" \in DOMAIN task)
    THEN "Task must contain a 'manifest' property"
    ELSE IF ~("location" \in DOMAIN task)
    THEN "Task must contain a 'location' property"
    ELSE ""

RECURSIVE CheckTasks(_, _)
\* lines 294-299: the loop, up to its first failed assert
CheckTasks(data, i) ==
    IF i > Len(data) THEN ""
    ELSE IF FailedAssert(data[i]) # "" THEN FailedAssert(data[i])
    ELSE CheckTasks(data, i + 1)

NoAttrs == <<>>

\* the exception of a constructor, or none, and the attributes set on self
Built(exc, msg, self) == [exc |-> exc, msg |-> msg, self |-> self]

\* a plausible slip: the elements accepted so far kept on self.data
JsonTasksInitKeepsPrefix(value) ==
    LET loaded == json_loads(value)
    IN  IF loaded.exc # "None" THEN Built(loaded.exc, loaded.msg, NoAttrs)
        ELSE IF loaded.val.type # "list"
        THEN Built("AssertionError", "", NoAttrs)
        ELSE LET data == loaded.val.items
                 bad == {i \in DOMAIN data : FailedAssert(data[i]) # ""}
             IN  IF bad = {} THEN Built("None", "", [data |-> data])
                 ELSE Built("AssertionError", CheckTasks(data, 1),
                            [data |-> SubSeq(data, 1, Min(bad) - 1)])

JsonTasksInit(value) ==
    LET loaded == json_loads(value)
    IN  IF loaded.exc # "None" THEN Built(loaded.exc, loaded.msg, NoAttrs)
        ELSE IF loaded.val.type # "list"
        THEN Built("AssertionError", "", NoAttrs)
        ELSE LET data == loaded.val.items
                 failed == CheckTasks(data, 1)
             IN  IF failed # "" THEN Built("AssertionError", failed, NoAttrs)
                 ELSE Built("None", "", [data |-> data])

\* the elements of a bulk payload: any of id, manifest and location
Elements ==
    UNION {{e \in [D -> {1, 2}] : \A k \in D : k # "id" => e[k] = 1} :
           D \in SUBSET {"id", "manifest", "location"}}

\* the values the model gives JsonTasks: a list of elements, a document
\* that is no list, a text that is no JSON
BulkInput(x) ==
    \/ \E n \in 0 .. MaxBatch : \E items \in [1 .. n -> Elements] :
          x = [op |-> "JsonTasks",
               value |-> [wellformed |-> TRUE,
                          doc |-> [type |-> "list", items |-> items]]]
    \/ x = [op |-> "JsonTasks",
            value |-> [wellformed |-> TRUE,
                       doc |-> [type |-> "dict", items |-> <<>>]]]
    \/ x = [op |-> "JsonTasks",
            value |-> [wellformed |-> FALSE,
                       doc |-> [type |-> "none", items |-> <<>>]]]

JsonTasks ==
    /\ input.op = "JsonTasks"
    /\ ret = NoRet
    /\ ret' = [op |-> "JsonTasks", res |-> JsonTasksInit(input.value)]
    /\ UNCHANGED <<tasks, session, pc, q, input>>

\* the store of the parser's calls: tasks in either challenge
IngestStores ==
    [TaskIds -> {r \in TaskRows : r.status = "created" /\ r.random = 10
                                     /\ r.location = <<0, 0>>}]

InitIngest ==
    /\ session = <<>>
    /\ pc = "idle"
    /\ q = NoQuery
    /\ ret = NoRet
    /\ \/ ParseInput(input) /\ tasks \in IngestStores
       \/ BulkInput(input) /\ tasks = <<>>

NextIngest == ParseTaskJson \/ JsonTasks

SpecIngest == InitIngest /\ [][NextIngest]_vars

\* C7: parse_task_json rejects a payload without identifier as a client
\* error naming the identifier; a payload without geometries is rejected as
\* a client error naming the geometries exactly when the challenge has no
\* task of that identifier, and is otherwise parsed into a Task with no
\* geometries.
C7_GeometriesOnlyForNewTasks ==
    ret.op = "parse_task_json" =>
        /\ "identifier" \notin DOMAIN input.data
              => ret.res = Abort(400, "no identifier")
        /\ ("identifier" \in DOMAIN input.data
               /\ "geometries" \notin DOMAIN input.data)
              => IF \E t \in DOMAIN tasks :
                       /\ tasks[t].challenge_slug = input.slug
                       /\ t = input.data["identifier"]
                 THEN /\ ret.res.exc = "None"
                      /\ ret.res.val.geometries = <<>>
                 ELSE ret.res = Abort(400, "no geometries for new tasks")

\* what the code does with a payload that has an identifier and no
\* geometries: a TypeError, whether the task exists or not
C7_TypeErrorWithoutGeometries ==
    (ret.op = "parse_task_json" /\ "identifier" \in DOMAIN input.data
        /\ "geometries" \notin DOMAIN input.data)
    => ret.res.exc = "TypeError"

\* an element of a bulk payload has id, manifest and location
Complete(task) == {"id", "manifest", "location"} \subseteq DOMAIN task

\* C8: JsonTasks fails, with no data set on it, for every batch with an
\* element that lacks id, manifest or location, wherever the element is;
\* it accepts the batch, unchanged and in order, when every element has
\* all three.
C8_AllOrNothing ==
    (ret.op = "JsonTasks" /\ input.value.wellformed
        /\ input.value.doc.type = "list")
    => LET items == input.value.doc.items
       IN  IF \E i \in DOMAIN items : ~Complete(items[i])
           THEN /\ ret.res.exc = "AssertionError"
                /\ "data" \notin DOMAIN ret.res.self
           ELSE /\ ret.res.exc = "None"
                /\ ret.res.self = [data |-> items]

\* a batch of three complete elements and a last one without location
\* was refused
C8_Witness ==
    /\ ret.op = "JsonTasks"
    /\ input.value.doc.type = "list"
    /\ LET items == input.value.doc.items
       IN  /\ Len(items) = 4
           /\ \A i \in 1 .. 3 : Complete(items[i])
           /\ DOMAIN items[4] = {"id", "manifest"}
    /\ ret.res.exc = "AssertionError"

====
